---- MODULE Spec2Model ----
(***************************************************************************)
(* Scan-conversion library (lab3/algorithms.py) and its benchmark harness  *)
(* (lab3/benchmark.py).                                                    *)
(*                                                                         *)
(* A rasterizer call is modelled one loop iteration per step: the locals   *)
(* of the running call are the variables x, y, err, d, iters, points and   *)
(* seen; pc is the position of the call and ret the returned list.         *)
(* Callers that make several calls keep the results in log and the frames  *)
(* of the calls that are not executing in saved (SpecSeq, SpecPar).        *)
(* RasterApp (lab3/main.py) is modelled one event handler per step, with   *)
(* the rasterizer calls of render_scene recorded in drawn (SpecApp).       *)
(*                                                                         *)
(* Floating point.  step_line_points and dda_line_points compute in        *)
(* binary doubles and round with Python's round(), which rounds exact .5   *)
(* ties to the even integer.  Every value they round is, in exact          *)
(* arithmetic, a rational whose denominator is at most max(|dx|,|dy|), so  *)
(* a value that is not a tie is far further from the nearest tie than the  *)
(* accumulated rounding error and rounds to the nearest integer.  A value  *)
(* that is exactly a tie is computed exactly when the slope / increment is *)
(* a dyadic rational (then every intermediate is representable) and goes   *)
(* to the even neighbour; otherwise the double may fall on either side of  *)
(* the tie, and the model allows both neighbours.                          *)
(***************************************************************************)
EXTENDS Integers, Sequences, FiniteSets, TLC

\* ---------------------------------------------------------------- bounds
MaxCoord == 3          \* line / centre coordinates range over -MaxCoord..MaxCoord
MaxRadius == 11        \* largest radius of a circle request
NegRadius == 2         \* circle requests reach down to the invalid radius -NegRadius

Coord == (-MaxCoord)..MaxCoord
Radius == (-NegRadius)..MaxRadius

\* ------------------------------------------------------- registries (keys)
\* LINE_ALGORITHMS / CIRCLE_ALGORITHMS: insertion-ordered key -> descriptor.
LINE_ALGORITHMS == <<"step_line", "dda_line", "bresenham_line">>

CIRCLE_ALGORITHMS == <<"bresenham_circle">>

Range(s) == {s[j] : j \in 1..Len(s)}

\* ------------------------------------------------------------- arithmetic
Abs(a) == IF a >= 0 THEN a ELSE -a

Max(a, b) == IF a >= b THEN a ELSE b

RECURSIVE GCD(_, _)
GCD(a, b) == IF b = 0 THEN a ELSE GCD(b, a % b)

RECURSIVE IsPow2(_)
IsPow2(n) == n = 1 \/ (n > 1 /\ n % 2 = 0 /\ IsPow2(n \div 2))

\* The double quotient num/den (den # 0) is exact iff the reduced
\* denominator is a power of two.
FloatExact(num, den) == IsPow2(Abs(den) \div GCD(Abs(num), Abs(den)))

\* mutant: int(v) without round(): truncation towards zero
int_trunc(num, den, exact) ==
    {IF num >= 0 THEN num \div den ELSE -((-num) \div den)}

\* int(round(v)) for the double v whose exact value is num/den, den > 0:
\* the set of integers the call can produce (see the header).
int_round(num, den, exact) ==
    LET q == num \div den
        r == num % den
    IN  IF 2 * r < den THEN {q}
        ELSE IF 2 * r > den THEN {q + 1}
        ELSE IF exact THEN {IF q % 2 = 0 THEN q ELSE q + 1}
        ELSE {q, q + 1}

\* `if not points or point != points[-1]: points.append(point)`
AppendIfNew(pts, point) ==
    IF pts = <<>> \/ point # pts[Len(pts)] THEN Append(pts, point) ELSE pts

VARIABLES
    pc,        \* position of the rasterizer call
    fn,        \* registry key of the function called
    args,      \* its argument tuple
    x, y,      \* locals x, y (dda: the doubles x, y scaled by steps)
    err,       \* bresenham_line_points: err
    d,         \* bresenham_circle_points: d
    iters,     \* loop bodies executed so far (the `_` of the range loops)
    points,    \* local list points
    seen,      \* bresenham_circle_points: seen
    ret,       \* the returned list (meaningful when pc = "done")
    \* run_benchmarks (lab3/benchmark.py)
    bpc,               \* position of the run_benchmarks call
    seed,              \* parameter seed
    line_tests,        \* parameter line_tests
    circle_tests,      \* parameter circle_tests
    line_algorithms,   \* parameter line_algorithms: keys in insertion order
    circle_algorithms, \* parameter circle_algorithms: keys in insertion order
    rng,               \* state of the local generator rng
    line_dataset,      \* local line_dataset
    circle_dataset,    \* local circle_dataset
    results,           \* local results
    ai,                \* number of registry items the current for loop has taken
    k,                 \* number of tuples the current pass has consumed
    calls,             \* log of the func(*args) calls of this run: <<key, args>>
    prev,              \* inputs and workloads of the previous call, if any
    \* --- several rasterizer calls
    saved,             \* frames (locals) of the calls that are not executing
    log,               \* the calls that have finished: function, request, result
    \* --- RasterApp (main.py)
    current_line,      \* self.current_line: <<x1, y1, x2, y2>>, or <<>> for None
    current_circle,    \* self.current_circle: <<xc, yc, radius>>, or <<>> for None
    algorithm_flags,   \* self.algorithm_flags: key -> BooleanVar value
    drawn,             \* the rasterizer calls of the last render_scene
    last               \* what the last event handler did

rvars == <<pc, fn, args, x, y, err, d, iters, points, seen, ret>>

bvars == <<bpc, seed, line_tests, circle_tests, line_algorithms,
           circle_algorithms, rng, line_dataset, circle_dataset, results,
           ai, k, calls, prev>>

\* the callers' side of a rasterizer call: the frames of the calls that are
\* suspended, and the calls that have returned
svars == <<saved, log>>

\* the state of RasterApp
gvars == <<current_line, current_circle, algorithm_flags, drawn, last>>

vars == <<rvars, bvars, svars, gvars>>

\* ------------------------------------------------ locals derived from args
x1 == args[1]
y1 == args[2]
x2 == args[3]
y2 == args[4]

\* signed deltas of step_line_points / dda_line_points
dx == x2 - x1
dy == y2 - y1

\* mutant: the Manhattan length instead of the larger delta
steps_manhattan == Abs(dx) + Abs(dy)
steps == Max(Abs(dx), Abs(dy))

\* slope = dy / dx if dx != 0 else 0.0, as <<numerator, denominator>>
slope == IF dx # 0 THEN <<dy, dx>> ELSE <<0, 1>>

inv_slope == IF dy # 0 THEN <<dx, dy>> ELSE <<0, 1>>

\* sx, sy of bresenham_line_points
sx == IF x2 >= x1 THEN 1 ELSE -1
\* mutant: sy computed from the x coordinates (copied from the line above)
sy_from_x == IF x2 >= x1 THEN 1 ELSE -1
sy == IF y2 >= y1 THEN 1 ELSE -1

xc == args[1]
yc == args[2]
radius == args[3]

\* mutant: the start coordinate y0 is left out
Raw_nostart(y0, s, t) ==
    LET n == s[1] * t
    IN  IF s[2] > 0 THEN <<n, s[2]>> ELSE <<-n, -s[2]>>
\* y0 + s * t for the double s = s[1]/s[2], as a rational with positive
\* denominator
Raw(y0, s, t) ==
    LET n == y0 * s[2] + s[1] * t
    IN  IF s[2] > 0 THEN <<n, s[2]>> ELSE <<-n, -s[2]>>

Locals0 ==
    /\ x = 0 /\ y = 0 /\ err = 0 /\ d = 0 /\ iters = 0
    /\ points = <<>> /\ seen = {} /\ ret = <<>>

\* no run_benchmarks call is active
BenchIdle ==
    /\ bpc = "idle" /\ seed = 0 /\ line_tests = 0 /\ circle_tests = 0
    /\ line_algorithms = <<>> /\ circle_algorithms = <<>> /\ rng = 0
    /\ line_dataset = <<>> /\ circle_dataset = <<>> /\ results = <<>>
    /\ ai = 0 /\ k = 0 /\ calls = <<>> /\ prev = <<>>

\* no other call is suspended and none has finished, and no window is open
SingleCall ==
    /\ saved = <<>> /\ log = <<>>
    /\ current_line = <<>> /\ current_circle = <<>>
    /\ algorithm_flags = <<>> /\ drawn = <<>> /\ last = "none"

\* one rasterizer call, on any request within the bounds
Init ==
    /\ pc = "call"
    /\ \/ fn \in Range(LINE_ALGORITHMS) /\ args \in Coord \X Coord \X Coord \X Coord
       \/ fn \in Range(CIRCLE_ALGORITHMS) /\ args \in Coord \X Coord \X Radius
    /\ Locals0
    /\ BenchIdle
    /\ SingleCall

\* ------------------------------------------------------- step_line_points
\* mutant: the axis test reversed, so that the loop walks the minor axis
step_line_points_minor ==
    /\ pc = "call" /\ fn = "step_line"
    /\ IF dx = 0 /\ dy = 0
       THEN /\ pc' = "done" /\ ret' = <<<<x1, y1>>>>
            /\ UNCHANGED <<x, y, points>>
       ELSE /\ points' = <<>>
            /\ ret' = ret
            /\ IF Abs(dx) <= Abs(dy)
               THEN pc' = "step_x" /\ x' = x1 /\ y' = y
               ELSE pc' = "step_y" /\ y' = y1 /\ x' = x
    /\ UNCHANGED <<fn, args, err, d, iters, seen, bvars, svars, gvars>>

step_line_points ==
    /\ pc = "call" /\ fn = "step_line"
    /\ IF dx = 0 /\ dy = 0
       THEN /\ pc' = "done" /\ ret' = <<<<x1, y1>>>>
            /\ UNCHANGED <<x, y, points>>
       ELSE /\ points' = <<>>
            /\ ret' = ret
            /\ IF Abs(dx) >= Abs(dy)
               THEN pc' = "step_x" /\ x' = x1 /\ y' = y
               ELSE pc' = "step_y" /\ y' = y1 /\ x' = x
    /\ UNCHANGED <<fn, args, err, d, iters, seen, bvars, svars, gvars>>

\* mutant: the break test placed before the append
step_line_points_x_breakfirst ==
    /\ pc = "step_x"
    /\ LET raw_y == Raw(y1, slope, x - x1)
           step == IF dx >= 0 THEN 1 ELSE -1
       IN  \E ry \in int_round(raw_y[1], raw_y[2], FloatExact(slope[1], slope[2])) :
             IF x = x2
             THEN pc' = "done" /\ ret' = points /\ x' = x /\ points' = points
             ELSE /\ points' = AppendIfNew(points, <<x, ry>>)
                  /\ pc' = pc /\ ret' = ret /\ x' = x + step
    /\ iters' = iters + 1
    /\ UNCHANGED <<fn, args, y, err, d, seen, bvars, svars, gvars>>

step_line_points_x ==
    /\ pc = "step_x"
    /\ LET raw_y == Raw(y1, slope, x - x1)
           step == IF dx >= 0 THEN 1 ELSE -1
       IN  \E ry \in int_round(raw_y[1], raw_y[2], FloatExact(slope[1], slope[2])) :
             /\ points' = AppendIfNew(points, <<x, ry>>)
             /\ IF x = x2
                THEN pc' = "done" /\ ret' = points' /\ x' = x
                ELSE pc' = pc /\ ret' = ret /\ x' = x + step
    /\ iters' = iters + 1
    /\ UNCHANGED <<fn, args, y, err, d, seen, bvars, svars, gvars>>

\* mutant: step taken from dx (copied from the x branch)
step_line_points_y_stepdx ==
    /\ pc = "step_y"
    /\ LET raw_x == Raw(x1, inv_slope, y - y1)
           step == IF dx >= 0 THEN 1 ELSE -1
       IN  \E rx \in int_round(raw_x[1], raw_x[2], FloatExact(inv_slope[1], inv_slope[2])) :
             /\ points' = AppendIfNew(points, <<rx, y>>)
             /\ IF y = y2
                THEN pc' = "done" /\ ret' = points' /\ y' = y
                ELSE pc' = pc /\ ret' = ret /\ y' = y + step
    /\ iters' = iters + 1
    /\ UNCHANGED <<fn, args, x, err, d, seen, bvars, svars, gvars>>

step_line_points_y ==
    /\ pc = "step_y"
    /\ LET raw_x == Raw(x1, inv_slope, y - y1)
           step == IF dy >= 0 THEN 1 ELSE -1
       IN  \E rx \in int_round(raw_x[1], raw_x[2], FloatExact(inv_slope[1], inv_slope[2])) :
             /\ points' = AppendIfNew(points, <<rx, y>>)
             /\ IF y = y2
                THEN pc' = "done" /\ ret' = points' /\ y' = y
                ELSE pc' = pc /\ ret' = ret /\ y' = y + step
    /\ iters' = iters + 1
    /\ UNCHANGED <<fn, args, x, err, d, seen, bvars, svars, gvars>>

\* -------------------------------------------------------- dda_line_points
\* mutant: the degenerate request returns the still empty list
dda_line_points_emptyreturn ==
    /\ pc = "call" /\ fn = "dda_line"
    /\ IF steps = 0
       THEN /\ pc' = "done" /\ ret' = <<>>
            /\ UNCHANGED <<x, y, points>>
       ELSE /\ points' = <<>>
            /\ x' = x1 * steps
            /\ y' = y1 * steps
            /\ pc' = "dda" /\ ret' = ret
    /\ UNCHANGED <<fn, args, err, d, iters, seen, bvars, svars, gvars>>

\* x and y hold the doubles x and y multiplied by steps, so that
\* x += x_inc (x_inc = dx / steps) is x + dx.
dda_line_points ==
    /\ pc = "call" /\ fn = "dda_line"
    /\ IF steps = 0
       THEN /\ pc' = "done" /\ ret' = <<<<x1, y1>>>>
            /\ UNCHANGED <<x, y, points>>
       ELSE /\ points' = <<>>
            /\ x' = x1 * steps
            /\ y' = y1 * steps
            /\ pc' = "dda" /\ ret' = ret
    /\ UNCHANGED <<fn, args, err, d, iters, seen, bvars, svars, gvars>>

\* mutant: x and y are incremented before the point is computed
dda_line_points_loop_incfirst ==
    /\ pc = "dda"
    /\ iters < steps + 1
    /\ \E rx \in int_round(x + dx, steps, FloatExact(dx, steps)),
          ry \in int_round(y + dy, steps, FloatExact(dy, steps)) :
          points' = AppendIfNew(points, <<rx, ry>>)
    /\ x' = x + dx
    /\ y' = y + dy
    /\ iters' = iters + 1
    /\ IF iters' = steps + 1
       THEN pc' = "done" /\ ret' = points'
       ELSE pc' = pc /\ ret' = ret
    /\ UNCHANGED <<fn, args, err, d, seen, bvars, svars, gvars>>

dda_line_points_loop ==
    /\ pc = "dda"
    /\ iters < steps + 1
    /\ \E rx \in int_round(x, steps, FloatExact(dx, steps)),
          ry \in int_round(y, steps, FloatExact(dy, steps)) :
          points' = AppendIfNew(points, <<rx, ry>>)
    /\ x' = x + dx
    /\ y' = y + dy
    /\ iters' = iters + 1
    /\ IF iters' = steps + 1
       THEN pc' = "done" /\ ret' = points'
       ELSE pc' = pc /\ ret' = ret
    /\ UNCHANGED <<fn, args, err, d, seen, bvars, svars, gvars>>

\* -------------------------------------------------- bresenham_line_points
\* dx, dy of bresenham_line_points are the absolute deltas
bdx == Abs(x2 - x1)
bdy == Abs(y2 - y1)

\* mutant: the accumulator starts at twice the minor delta, without the
\* subtraction of the major one
bresenham_line_points_errfull ==
    /\ pc = "call" /\ fn = "bresenham_line"
    /\ x' = x1
    /\ y' = y1
    /\ points' = <<<<x1, y1>>>>
    /\ IF bdx >= bdy
       THEN /\ err' = 2 * bdy
            /\ IF bdx = 0 THEN pc' = "done" /\ ret' = points'
                          ELSE pc' = "bres_x" /\ ret' = ret
       ELSE /\ err' = 2 * bdx
            /\ pc' = "bres_y" /\ ret' = ret
    /\ UNCHANGED <<fn, args, d, iters, seen, bvars, svars, gvars>>

bresenham_line_points ==
    /\ pc = "call" /\ fn = "bresenham_line"
    /\ x' = x1
    /\ y' = y1
    /\ points' = <<<<x1, y1>>>>
    /\ IF bdx >= bdy
       THEN /\ err' = 2 * bdy - bdx
            /\ IF bdx = 0 THEN pc' = "done" /\ ret' = points'
                          ELSE pc' = "bres_x" /\ ret' = ret
       ELSE /\ err' = 2 * bdx - bdy
            /\ pc' = "bres_y" /\ ret' = ret
    /\ UNCHANGED <<fn, args, d, iters, seen, bvars, svars, gvars>>

\* mutant: the textbook loop body, which plots the current pixel and then
\* steps, appending without the comparison with points[-1]
bresenham_line_points_x_plotfirst ==
    /\ pc = "bres_x"
    /\ iters < bdx
    /\ LET up == err >= 0
           ny == IF up THEN y + sy ELSE y
           e1 == IF up THEN err - 2 * bdx ELSE err
       IN  /\ points' = Append(points, <<x, y>>)
           /\ y' = ny
           /\ x' = x + sx
           /\ err' = e1 + 2 * bdy
    /\ iters' = iters + 1
    /\ IF iters' = bdx
       THEN pc' = "done" /\ ret' = points'
       ELSE pc' = pc /\ ret' = ret
    /\ UNCHANGED <<fn, args, d, seen, bvars, svars, gvars>>

bresenham_line_points_x ==
    /\ pc = "bres_x"
    /\ iters < bdx
    /\ LET up == err >= 0
           ny == IF up THEN y + sy ELSE y
           e1 == IF up THEN err - 2 * bdx ELSE err
       IN  /\ y' = ny
           /\ x' = x + sx
           /\ err' = e1 + 2 * bdy
           /\ points' = IF <<x', y'>> # points[Len(points)]
                        THEN Append(points, <<x', y'>>) ELSE points
    /\ iters' = iters + 1
    /\ IF iters' = bdx
       THEN pc' = "done" /\ ret' = points'
       ELSE pc' = pc /\ ret' = ret
    /\ UNCHANGED <<fn, args, d, seen, bvars, svars, gvars>>

\* mutant: the y-driven loop steps x on err > 0 only
bresenham_line_points_y_strict ==
    /\ pc = "bres_y"
    /\ iters < bdy
    /\ LET up == err > 0
           nx == IF up THEN x + sx ELSE x
           e1 == IF up THEN err - 2 * bdy ELSE err
       IN  /\ x' = nx
           /\ y' = y + sy
           /\ err' = e1 + 2 * bdx
           /\ points' = IF <<x', y'>> # points[Len(points)]
                        THEN Append(points, <<x', y'>>) ELSE points
    /\ iters' = iters + 1
    /\ IF iters' = bdy
       THEN pc' = "done" /\ ret' = points'
       ELSE pc' = pc /\ ret' = ret
    /\ UNCHANGED <<fn, args, d, seen, bvars, svars, gvars>>

bresenham_line_points_y ==
    /\ pc = "bres_y"
    /\ iters < bdy
    /\ LET up == err >= 0
           nx == IF up THEN x + sx ELSE x
           e1 == IF up THEN err - 2 * bdy ELSE err
       IN  /\ x' = nx
           /\ y' = y + sy
           /\ err' = e1 + 2 * bdx
           /\ points' = IF <<x', y'>> # points[Len(points)]
                        THEN Append(points, <<x', y'>>) ELSE points
    /\ iters' = iters + 1
    /\ IF iters' = bdy
       THEN pc' = "done" /\ ret' = points'
       ELSE pc' = pc /\ ret' = ret
    /\ UNCHANGED <<fn, args, d, seen, bvars, svars, gvars>>

\* ------------------------------------------------ bresenham_circle_points
\* mutant: the last reflection repeats the sixth
circle_symmetry_points_typo(cx, cy, px, py) ==
    << <<cx + px, cy + py>>, <<cx - px, cy + py>>,
       <<cx + px, cy - py>>, <<cx - px, cy - py>>,
       <<cx + py, cy + px>>, <<cx - py, cy + px>>,
       <<cx + py, cy - px>>, <<cx - py, cy + px>> >>

circle_symmetry_points(cx, cy, px, py) ==
    << <<cx + px, cy + py>>, <<cx - px, cy + py>>,
       <<cx + px, cy - py>>, <<cx - px, cy - py>>,
       <<cx + py, cy + px>>, <<cx - py, cy + px>>,
       <<cx + py, cy - px>>, <<cx - py, cy - px>> >>

\* mutant: every candidate is appended, seen or not
RECURSIVE AddUnseen_nocheck(_, _)
AddUnseen_nocheck(st, cands) ==
    IF cands = <<>> THEN st
    ELSE AddUnseen_nocheck(<<Append(st[1], Head(cands)), st[2] \cup {Head(cands)}>>,
                           Tail(cands))

\* the inner for loop: `if point not in seen: seen.add(point);
\* points.append(point)` over the candidates in order; st = <<points, seen>>
RECURSIVE AddUnseen(_, _)
AddUnseen(st, cands) ==
    IF cands = <<>> THEN st
    ELSE LET point == Head(cands)
         IN  IF point \notin st[2]
             THEN AddUnseen(<<Append(st[1], point), st[2] \cup {point}>>, Tail(cands))
             ELSE AddUnseen(st, Tail(cands))

\* mutant: the radius test is off by one
bresenham_circle_points_offbyone ==
    /\ pc = "call" /\ fn = "bresenham_circle"
    /\ IF radius < -1
       THEN /\ pc' = "raised"
            /\ UNCHANGED <<x, y, d, points, seen, ret>>
       ELSE /\ points' = <<>>
            /\ seen' = {}
            /\ x' = 0
            /\ y' = radius
            /\ d' = 3 - 2 * radius
            /\ pc' = "circle"
            /\ ret' = ret
    /\ UNCHANGED <<fn, args, err, iters, bvars, svars, gvars>>

bresenham_circle_points ==
    /\ pc = "call" /\ fn = "bresenham_circle"
    /\ IF radius < 0
       THEN /\ pc' = "raised"
            /\ UNCHANGED <<x, y, d, points, seen, ret>>
       ELSE /\ points' = <<>>
            /\ seen' = {}
            /\ x' = 0
            /\ y' = radius
            /\ d' = 3 - 2 * radius
            /\ pc' = "circle"
            /\ ret' = ret
    /\ UNCHANGED <<fn, args, err, iters, bvars, svars, gvars>>

\* mutant: `while y > x`
bresenham_circle_points_loop_strict ==
    /\ pc = "circle"
    /\ IF y > x
       THEN /\ LET st == AddUnseen(<<points, seen>>, circle_symmetry_points(xc, yc, x, y))
               IN  points' = st[1] /\ seen' = st[2]
            /\ x' = x + 1
            /\ IF d > 0
               THEN y' = y - 1 /\ d' = d + 4 * (x' - y') + 10
               ELSE y' = y /\ d' = d + 4 * x' + 6
            /\ iters' = iters + 1
            /\ pc' = pc /\ ret' = ret
       ELSE /\ pc' = "done" /\ ret' = points
            /\ UNCHANGED <<x, y, d, iters, points, seen>>
    /\ UNCHANGED <<fn, args, err, bvars, svars, gvars>>

\* one evaluation of `while y >= x` and, when it holds, of the loop body
bresenham_circle_points_loop ==
    /\ pc = "circle"
    /\ IF y >= x
       THEN /\ LET st == AddUnseen(<<points, seen>>, circle_symmetry_points(xc, yc, x, y))
               IN  points' = st[1] /\ seen' = st[2]
            /\ x' = x + 1
            /\ IF d > 0
               THEN y' = y - 1 /\ d' = d + 4 * (x' - y') + 10
               ELSE y' = y /\ d' = d + 4 * x' + 6
            /\ iters' = iters + 1
            /\ pc' = pc /\ ret' = ret
       ELSE /\ pc' = "done" /\ ret' = points
            /\ UNCHANGED <<x, y, d, iters, points, seen>>
    /\ UNCHANGED <<fn, args, err, bvars, svars, gvars>>

Next ==
    \/ step_line_points
    \/ step_line_points_x
    \/ step_line_points_y
    \/ dda_line_points
    \/ dda_line_points_loop
    \/ bresenham_line_points
    \/ bresenham_line_points_x
    \/ bresenham_line_points_y
    \/ bresenham_circle_points
    \/ bresenham_circle_points_loop

Spec == Init /\ [][Next]_vars

\* a call that has started keeps executing: the interpreter runs the next
\* statement of the running function
SpecLive == Spec /\ WF_vars(Next)

\* ================================================= run_benchmarks (harness)
MaxTests == 2          \* line_tests and circle_tests range over 0..MaxTests

Seeds == {2025, 7}

\* the values (time.perf_counter() - start) * 1000 of a pass takes, in ticks
Elapsed == {0, 1}

\* the <<line_algorithms, circle_algorithms>> pairs a caller passes: the
\* module's own registries (run_benchmarks_default) and smaller / reordered
\* ones; "raising_line" is a line algorithm of the caller's that raises on
\* some requests (see Raises)
Registries ==
    { <<LINE_ALGORITHMS, CIRCLE_ALGORITHMS>>,
      << <<"bresenham_line", "raising_line", "dda_line">>, <<>> >>,
      << <<>>, CIRCLE_ALGORITHMS >> }

\* meta["label"]
Label(key) ==
    CASE key = "step_line" -> "Step-by-step line"
      [] key = "dda_line" -> "DDA line"
      [] key = "bresenham_line" -> "Bresenham line"
      [] key = "bresenham_circle" -> "Bresenham circle"
      [] key = "raising_line" -> "Raising line"

\* mutant: one generator shared by all calls and never reseeded
Random_shared(s) == rng

\* random.Random(seed): a deterministic generator whose whole state is a
\* function of the seed (a small congruential generator stands for the
\* Mersenne Twister).
Random(s) == s % 9973

advance(g) == (g * 137 + 187) % 9973

\* rng.randint(a, b) in generator state g (after the draw the state is advance(g))
randint(g, a, b) == a + (advance(g) % (b - a + 1))

\* the randint ranges of one line tuple and of one circle tuple
LineRanges == << <<-60, 60>>, <<-60, 60>>, <<-60, 60>>, <<-60, 60>> >>

\* mutant: the radius drawn from the range of the centre coordinates
CircleRanges_centre == << <<-30, 30>>, <<-30, 30>>, <<-30, 30>> >>

CircleRanges == << <<-30, 30>>, <<-30, 30>>, <<1, 30>> >>

\* one tuple: the randint calls left to right; <<tuple, generator state>>
RECURSIVE DrawTuple(_, _, _)
DrawTuple(g, ranges, acc) ==
    IF ranges = <<>> THEN <<acc, g>>
    ELSE DrawTuple(advance(g), Tail(ranges),
                   Append(acc, randint(g, Head(ranges)[1], Head(ranges)[2])))

\* [ (...) for _ in range(n) ]: <<dataset, generator state>>
RECURSIVE Generate(_, _, _, _)
Generate(g, n, ranges, acc) ==
    IF n <= 0 THEN <<acc, g>>
    ELSE LET t == DrawTuple(g, ranges, <<>>)
         IN  Generate(t[2], n - 1, ranges, Append(acc, t[1]))

\* func(*a) raises: of the module's functions only bresenham_circle_points
\* does, on a negative radius; the caller's "raising_line" does on x1 < 0
Raises(key, a) ==
    \/ key = "bresenham_circle" /\ a[3] < 0
    \/ key = "raising_line" /\ a[1] < 0

\* the record appended to results; avg = (elapsed_ms / tests) * 1000 as
\* <<numerator, denominator>>
Record(key, tests, elapsed_ms) ==
    [name |-> Label(key), tests |-> tests, total |-> elapsed_ms,
     avg |-> <<elapsed_ms * 1000, tests>>]

InitBench ==
    /\ pc = "idle" /\ fn = "none" /\ args = <<>>
    /\ Locals0
    /\ BenchIdle
    /\ SingleCall

\* the call: lines 29-48
run_benchmarks ==
    /\ bpc \in {"idle", "returned", "raised"}
    /\ \E s \in Seeds, lt \in 0..MaxTests :
          LET gl == Generate(Random(s), lt, LineRanges, <<>>)
          IN  \E ct \in 0..MaxTests :
                LET gc == Generate(gl[2], ct, CircleRanges, <<>>)
                IN  \E reg \in Registries :
                      /\ seed' = s /\ line_tests' = lt /\ circle_tests' = ct
                      /\ line_algorithms' = reg[1]
                      /\ circle_algorithms' = reg[2]
                      /\ line_dataset' = gl[1]
                      /\ circle_dataset' = gc[1]
                      /\ rng' = gc[2]
    /\ results' = <<>>
    /\ calls' = <<>>
    /\ ai' = 0 /\ k' = 0
    /\ prev' = IF bpc = "idle" THEN <<>>
               ELSE <<[seed |-> seed, line_tests |-> line_tests,
                       circle_tests |-> circle_tests,
                       line_dataset |-> line_dataset,
                       circle_dataset |-> circle_dataset]>>
    /\ bpc' = "line_for"
    /\ UNCHANGED <<rvars, svars, gvars>>

\* `for key, meta in line_algorithms.items()`: next item and
\* start = time.perf_counter(), or loop exit
line_for ==
    /\ bpc = "line_for"
    /\ IF ai < Len(line_algorithms)
       THEN ai' = ai + 1 /\ k' = 0 /\ bpc' = "line_pass"
       ELSE ai' = 0 /\ k' = 0 /\ bpc' = "circle_for"
    /\ UNCHANGED <<seed, line_tests, circle_tests, line_algorithms,
                   circle_algorithms, rng, line_dataset, circle_dataset,
                   results, calls, prev, rvars, svars, gvars>>

\* mutant: the pass iterates the workload from the end
line_call_reversed ==
    /\ bpc = "line_pass"
    /\ k < Len(line_dataset)
    /\ LET key == line_algorithms[ai]
           a == line_dataset[Len(line_dataset) - k]
       IN  /\ calls' = Append(calls, <<key, a>>)
           /\ IF Raises(key, a)
              THEN bpc' = "raised" /\ k' = k
              ELSE bpc' = bpc /\ k' = k + 1
    /\ UNCHANGED <<seed, line_tests, circle_tests, line_algorithms,
                   circle_algorithms, rng, line_dataset, circle_dataset,
                   results, ai, prev, rvars, svars, gvars>>

\* mutant: the call wrapped in try / except: pass
line_call_swallow ==
    /\ bpc = "line_pass"
    /\ k < Len(line_dataset)
    /\ LET key == line_algorithms[ai]
           a == line_dataset[k + 1]
       IN  /\ calls' = Append(calls, <<key, a>>)
           /\ bpc' = bpc /\ k' = k + 1
    /\ UNCHANGED <<seed, line_tests, circle_tests, line_algorithms,
                   circle_algorithms, rng, line_dataset, circle_dataset,
                   results, ai, prev, rvars, svars, gvars>>

\* `for args in line_dataset: func(*args)`: one call
line_call ==
    /\ bpc = "line_pass"
    /\ k < Len(line_dataset)
    /\ LET key == line_algorithms[ai]
           a == line_dataset[k + 1]
       IN  /\ calls' = Append(calls, <<key, a>>)
           /\ IF Raises(key, a)
              THEN bpc' = "raised" /\ k' = k
              ELSE bpc' = bpc /\ k' = k + 1
    /\ UNCHANGED <<seed, line_tests, circle_tests, line_algorithms,
                   circle_algorithms, rng, line_dataset, circle_dataset,
                   results, ai, prev, rvars, svars, gvars>>

\* lines 54-63: elapsed_ms, avg_us, results.append
line_record ==
    /\ bpc = "line_pass"
    /\ k = Len(line_dataset)
    /\ \E elapsed_ms \in Elapsed :
          IF line_tests = 0
          THEN bpc' = "raised" /\ results' = results
          ELSE /\ results' = Append(results,
                       Record(line_algorithms[ai], line_tests, elapsed_ms))
               /\ bpc' = "line_for"
    /\ UNCHANGED <<seed, line_tests, circle_tests, line_algorithms,
                   circle_algorithms, rng, line_dataset, circle_dataset,
                   ai, k, calls, prev, rvars, svars, gvars>>

\* `for key, meta in circle_algorithms.items()`, or `return results`
circle_for ==
    /\ bpc = "circle_for"
    /\ IF ai < Len(circle_algorithms)
       THEN ai' = ai + 1 /\ k' = 0 /\ bpc' = "circle_pass"
       ELSE ai' = ai /\ k' = k /\ bpc' = "returned"
    /\ UNCHANGED <<seed, line_tests, circle_tests, line_algorithms,
                   circle_algorithms, rng, line_dataset, circle_dataset,
                   results, calls, prev, rvars, svars, gvars>>

circle_call ==
    /\ bpc = "circle_pass"
    /\ k < Len(circle_dataset)
    /\ LET key == circle_algorithms[ai]
           a == circle_dataset[k + 1]
       IN  /\ calls' = Append(calls, <<key, a>>)
           /\ IF Raises(key, a)
              THEN bpc' = "raised" /\ k' = k
              ELSE bpc' = bpc /\ k' = k + 1
    /\ UNCHANGED <<seed, line_tests, circle_tests, line_algorithms,
                   circle_algorithms, rng, line_dataset, circle_dataset,
                   results, ai, prev, rvars, svars, gvars>>

\* mutant: the record block copied from the line loop, "tests" left as line_tests
circle_record_copied ==
    /\ bpc = "circle_pass"
    /\ k = Len(circle_dataset)
    /\ \E elapsed_ms \in Elapsed :
          IF circle_tests = 0
          THEN bpc' = "raised" /\ results' = results
          ELSE /\ results' = Append(results,
                       Record(circle_algorithms[ai], line_tests, elapsed_ms))
               /\ bpc' = "circle_for"
    /\ UNCHANGED <<seed, line_tests, circle_tests, line_algorithms,
                   circle_algorithms, rng, line_dataset, circle_dataset,
                   ai, k, calls, prev, rvars, svars, gvars>>

circle_record ==
    /\ bpc = "circle_pass"
    /\ k = Len(circle_dataset)
    /\ \E elapsed_ms \in Elapsed :
          IF circle_tests = 0
          THEN bpc' = "raised" /\ results' = results
          ELSE /\ results' = Append(results,
                       Record(circle_algorithms[ai], circle_tests, elapsed_ms))
               /\ bpc' = "circle_for"
    /\ UNCHANGED <<seed, line_tests, circle_tests, line_algorithms,
                   circle_algorithms, rng, line_dataset, circle_dataset,
                   ai, k, calls, prev, rvars, svars, gvars>>

NextBench ==
    \/ run_benchmarks
    \/ line_for
    \/ line_call
    \/ line_record
    \/ circle_for
    \/ circle_call
    \/ circle_record

SpecBench == InitBench /\ [][NextBench]_vars

\* ============================================ several rasterizer calls
\* the frame of the executing call: its function, request and locals
Frame ==
    [pc |-> pc, fn |-> fn, args |-> args, x |-> x, y |-> y, err |-> err,
     d |-> d, iters |-> iters, points |-> points, seen |-> seen, ret |-> ret]

\* func(*a) has been called and has not executed a statement yet
NewFrame(f, a) ==
    [pc |-> "call", fn |-> f, args |-> a, x |-> 0, y |-> 0, err |-> 0,
     d |-> 0, iters |-> 0, points |-> <<>>, seen |-> {}, ret |-> <<>>]

\* the frame fr becomes the executing one
Resume(fr) ==
    /\ pc' = fr.pc /\ fn' = fr.fn /\ args' = fr.args
    /\ x' = fr.x /\ y' = fr.y /\ err' = fr.err /\ d' = fr.d
    /\ iters' = fr.iters /\ points' = fr.points /\ seen' = fr.seen
    /\ ret' = fr.ret

\* what the caller receives from the executing call once it is over
Outcome == [fn |-> fn, args |-> args, pc |-> pc, ret |-> ret]

\* ------------------------------------- one caller, one call after another
\* the request with the x and y of both endpoints exchanged
Transposed(a) == <<a[2], a[1], a[4], a[3]>>

\* RasterApp.render_scene passes the current line to every line algorithm,
\* Bresenham last; draw_line accepts any segment, the mirror image of the
\* last one included
Followups ==
    {<<"dda_line", args>>, <<"bresenham_line", args>>,
     <<"bresenham_line", Transposed(args)>>}

\* the line call has returned and the caller makes the next call
call_again ==
    /\ pc = "done" /\ fn \in Range(LINE_ALGORITHMS)
    /\ log = <<>>
    /\ log' = <<Outcome>>
    /\ \E rq \in Followups : Resume(NewFrame(rq[1], rq[2]))
    /\ UNCHANGED <<saved, bvars, gvars>>

NextSeq ==
    \/ step_line_points
    \/ step_line_points_x
    \/ step_line_points_y
    \/ dda_line_points
    \/ dda_line_points_loop
    \/ bresenham_line_points
    \/ bresenham_line_points_x
    \/ bresenham_line_points_y
    \/ bresenham_circle_points
    \/ bresenham_circle_points_loop
    \/ call_again

SpecSeq == Init /\ [][NextSeq]_vars

\* --------------------------------------------- two calls in progress at once
MaxCoordPar == 2       \* coordinates and radii of the interleaved requests

CoordPar == (-MaxCoordPar)..MaxCoordPar
\* radii, the invalid radius -1 included
RadiusPar == (-1)..MaxCoordPar

\* the call that is in progress next to the observed one
Intruders ==
    { <<"bresenham_circle", <<0, 0, 1>>>>, <<"dda_line", <<0, 0, 2, 1>>>> }

\* one rasterizer call running alone
InitPar ==
    /\ pc = "call"
    /\ \/ /\ fn \in Range(LINE_ALGORITHMS)
          /\ args \in CoordPar \X CoordPar \X CoordPar \X CoordPar
       \/ /\ fn \in Range(CIRCLE_ALGORITHMS)
          /\ args \in CoordPar \X CoordPar \X RadiusPar
    /\ Locals0
    /\ BenchIdle
    /\ SingleCall

\* the call that ran alone is over; the same request is called again while
\* a second call is in progress
call_pair ==
    /\ pc \in {"done", "raised"}
    /\ log = <<>> /\ saved = <<>>
    /\ log' = <<Outcome>>
    /\ \E rq \in Intruders : saved' = <<NewFrame(rq[1], rq[2])>>
    /\ Resume(NewFrame(fn, args))
    /\ UNCHANGED <<bvars, gvars>>

\* mutant: `seen` is one set of the module instead of a local of the call
switch_sharedseen ==
    /\ pc \notin {"done", "raised"}
    /\ saved # <<>>
    /\ saved' = <<Frame>>
    /\ Resume([saved[1] EXCEPT !.seen = seen])
    /\ UNCHANGED <<log, bvars, gvars>>

\* the interpreter suspends the executing call and resumes the other one;
\* every local of a call lives in its own frame
switch ==
    /\ pc \notin {"done", "raised"}
    /\ saved # <<>>
    /\ saved' = <<Frame>>
    /\ Resume(saved[1])
    /\ UNCHANGED <<log, bvars, gvars>>

\* the executing call is over: its caller receives the result and the other
\* call continues
call_return ==
    /\ pc \in {"done", "raised"}
    /\ saved # <<>>
    /\ log' = Append(log, Outcome)
    /\ Resume(saved[1])
    /\ saved' = <<>>
    /\ UNCHANGED <<bvars, gvars>>

NextPar ==
    \/ step_line_points
    \/ step_line_points_x
    \/ step_line_points_y
    \/ dda_line_points
    \/ dda_line_points_loop
    \/ bresenham_line_points
    \/ bresenham_line_points_x
    \/ bresenham_line_points_y
    \/ bresenham_circle_points
    \/ bresenham_circle_points_loop
    \/ call_pair
    \/ switch
    \/ call_return

SpecPar == InitPar /\ [][NextPar]_vars

\* ====================================================== RasterApp (main.py)
\* what the user can type into an entry field
Texts == {"-1", "0", "1.5"}

\* int(text): <<TRUE, value>>, or <<FALSE, 0>> for ValueError
int_parse(t) ==
    CASE t = "-1" -> <<TRUE, -1>>
      [] t = "0"  -> <<TRUE, 0>>
      [] OTHER    -> <<FALSE, 0>>

AllKeys == Range(LINE_ALGORITHMS) \cup Range(CIRCLE_ALGORITHMS)

RECURSIVE RenderCalls(_, _, _, _)
\* the func(*request) calls of one registry loop of render_scene: the
\* enabled algorithms in registry order, up to the first call that raises
RenderCalls(registry, request, acc, j) ==
    IF j > Len(registry) THEN acc
    ELSE IF ~algorithm_flags'[registry[j]]
         THEN RenderCalls(registry, request, acc, j + 1)
         ELSE IF Raises(registry[j], request)
              THEN Append(acc, <<registry[j], request>>)
              ELSE RenderCalls(registry, request,
                               Append(acc, <<registry[j], request>>), j + 1)

\* render_scene, on the state the handler leaves: `if self.current_line:`
\* and `if self.current_circle:` skip None (and would skip an empty tuple)
Render ==
    LET lines == IF current_line' # <<>>
                 THEN RenderCalls(LINE_ALGORITHMS, current_line', <<>>, 1)
                 ELSE <<>>
        raised == lines # <<>> /\ Raises(lines[Len(lines)][1], lines[Len(lines)][2])
    IN  drawn' = IF current_circle' # <<>> /\ ~raised
                 THEN RenderCalls(CIRCLE_ALGORITHMS, current_circle', lines, 1)
                 ELSE lines

\* RasterApp.__init__: nothing is drawn, every algorithm is enabled
InitApp ==
    /\ pc = "idle" /\ fn = "none" /\ args = <<>>
    /\ Locals0
    /\ BenchIdle
    /\ saved = <<>> /\ log = <<>>
    /\ current_line = <<>> /\ current_circle = <<>>
    /\ algorithm_flags = [key \in AllKeys |-> TRUE]
    /\ drawn = <<>>
    /\ last = "Ready"

draw_line ==
    /\ \E t1 \in Texts, t2 \in Texts, t3 \in Texts, t4 \in Texts :
         LET p1 == int_parse(t1)
             p2 == int_parse(t2)
             p3 == int_parse(t3)
             p4 == int_parse(t4)
         IN  IF p1[1] /\ p2[1] /\ p3[1] /\ p4[1]
             THEN /\ current_line' = <<p1[2], p2[2], p3[2], p4[2]>>
                  /\ last' = "Line set"
                  /\ UNCHANGED <<current_circle, algorithm_flags>>
                  /\ Render
             ELSE /\ last' = "Invalid input"
                  /\ UNCHANGED <<current_line, current_circle,
                                 algorithm_flags, drawn>>
    /\ UNCHANGED <<rvars, bvars, svars>>

\* mutant: the radius test is missing
draw_circle_nocheck ==
    /\ \E t1 \in Texts, t2 \in Texts, t3 \in Texts :
         LET p1 == int_parse(t1)
             p2 == int_parse(t2)
             p3 == int_parse(t3)
         IN  IF ~(p1[1] /\ p2[1] /\ p3[1])
             THEN /\ last' = "Invalid input"
                  /\ UNCHANGED <<current_line, current_circle,
                                 algorithm_flags, drawn>>
             ELSE /\ current_circle' = <<p1[2], p2[2], p3[2]>>
                  /\ last' = "Circle set"
                  /\ UNCHANGED <<current_line, algorithm_flags>>
                  /\ Render
    /\ UNCHANGED <<rvars, bvars, svars>>

draw_circle ==
    /\ \E t1 \in Texts, t2 \in Texts, t3 \in Texts :
         LET p1 == int_parse(t1)
             p2 == int_parse(t2)
             p3 == int_parse(t3)
         IN  IF ~(p1[1] /\ p2[1] /\ p3[1])
             THEN /\ last' = "Invalid input"
                  /\ UNCHANGED <<current_line, current_circle,
                                 algorithm_flags, drawn>>
             ELSE IF p3[2] < 0
                  THEN /\ last' = "Invalid radius"
                       /\ UNCHANGED <<current_line, current_circle,
                                      algorithm_flags, drawn>>
                  ELSE /\ current_circle' = <<p1[2], p2[2], p3[2]>>
                       /\ last' = "Circle set"
                       /\ UNCHANGED <<current_line, algorithm_flags>>
                       /\ Render
    /\ UNCHANGED <<rvars, bvars, svars>>

clear_scene ==
    /\ current_line' = <<>>
    /\ current_circle' = <<>>
    /\ last' = "Drawing cleared"
    /\ UNCHANGED algorithm_flags
    /\ Render
    /\ UNCHANGED <<rvars, bvars, svars>>

\* the scale slider: command=lambda _value: self.render_scene()
render_scene ==
    /\ last' = "Rendered"
    /\ UNCHANGED <<current_line, current_circle, algorithm_flags>>
    /\ Render
    /\ UNCHANGED <<rvars, bvars, svars>>

\* a Checkbutton: the BooleanVar flips, then command=self.render_scene
toggle ==
    /\ \E key \in AllKeys :
         algorithm_flags' = [algorithm_flags EXCEPT ![key] = ~@]
    /\ last' = "Rendered"
    /\ UNCHANGED <<current_line, current_circle>>
    /\ Render
    /\ UNCHANGED <<rvars, bvars, svars>>

NextApp ==
    \/ draw_line
    \/ draw_circle
    \/ clear_scene
    \/ render_scene
    \/ toggle

SpecApp == InitApp /\ [][NextApp]_vars

\* ================================================================== claims
IsLine == fn \in Range(LINE_ALGORITHMS)

IsCircle == fn \in Range(CIRCLE_ALGORITHMS)

Sgn(a) == IF a > 0 THEN 1 ELSE IF a < 0 THEN -1 ELSE 0

IsPrefix(s, t) == Len(s) <= Len(t) /\ \A j \in 1..Len(s) : s[j] = t[j]

\* the argument tuples the run has passed to the algorithm `key`, in call order
ArgsOf(key) ==
    LET sel == SelectSeq(calls, LAMBDA c : c[1] = key)
    IN  [j \in 1..Len(sel) |-> sel[j][2]]

\* C1: every line algorithm returns a non-empty list whose first element is
\* (x1,y1) and whose last element is (x2,y2), for requests of any sign.
C1_EndpointsIncluded ==
    (pc = "done" /\ IsLine) =>
        /\ ret # <<>>
        /\ ret[1] = <<x1, y1>>
        /\ ret[Len(ret)] = <<x2, y2>>

\* a returned step-line result across all four quadrants
C1_Witness ==
    /\ pc = "done" /\ fn = "step_line"
    /\ x1 > 0 /\ x2 < 0 /\ y1 < 0 /\ y2 > 0
    /\ Len(ret) >= 3

\* C2: no two consecutive points of a line result are equal.
C2_NoAdjacentDuplicates ==
    (pc = "done" /\ IsLine) =>
        \A j \in 1..(Len(ret) - 1) : ret[j] # ret[j + 1]

\* a returned Bresenham result on a shallow slope
C2_Witness ==
    /\ pc = "done" /\ fn = "bresenham_line"
    /\ bdy > 0 /\ bdy < bdx
    /\ Len(ret) >= 4

\* C3: a circle result contains no point twice.
C3_CircleUnique ==
    (pc = "done" /\ IsCircle) =>
        \A i \in 1..Len(ret), j \in 1..Len(ret) : i # j => ret[i] # ret[j]

\* a returned circle of several loop iterations
C3_Witness ==
    /\ pc = "done" /\ IsCircle
    /\ radius >= 3 /\ iters >= 3 /\ Len(ret) >= 16

\* C4: for radius > 0 the set of returned points is closed under the
\* reflections about the centre and under the x/y swap.
C4_CircleSymmetric ==
    (pc = "done" /\ IsCircle /\ radius > 0) =>
        \A p \in Range(ret) :
            /\ <<2 * xc - p[1], p[2]>> \in Range(ret)
            /\ <<p[1], 2 * yc - p[2]>> \in Range(ret)
            /\ <<2 * xc - p[1], 2 * yc - p[2]>> \in Range(ret)
            /\ <<xc + (p[2] - yc), yc + (p[1] - xc)>> \in Range(ret)

\* a returned circle off the origin that has points off the axes
C4_Witness ==
    /\ pc = "done" /\ IsCircle
    /\ radius >= 2 /\ xc # 0 /\ yc # 0 /\ xc # yc
    /\ \E p \in Range(ret) : p[1] # xc /\ p[2] # yc /\ p[1] - xc # p[2] - yc

\* C5: with radius < 0 the call raises before any computation: it is either
\* not yet executed or has raised, no loop body has run, no point was
\* generated and nothing was returned.
C5_NegativeRadiusRaises ==
    (IsCircle /\ radius < 0) =>
        /\ pc \in {"call", "raised"}
        /\ iters = 0
        /\ points = <<>>
        /\ seen = {}
        /\ ret = <<>>

\* the call has raised, off the origin
C5_Witness ==
    /\ pc = "raised" /\ IsCircle /\ radius < 0
    /\ xc # 0 /\ yc # 0

\* C6: radius 0 returns exactly [(xc,yc)] after a single loop iteration.
C6_RadiusZero ==
    (pc = "done" /\ IsCircle /\ radius = 0) =>
        /\ ret = << <<xc, yc>> >>
        /\ iters = 1

\* a returned radius-0 circle off the origin
C6_Witness ==
    /\ pc = "done" /\ IsCircle /\ radius = 0
    /\ xc # 0 /\ yc # 0 /\ Len(ret) = 1

\* C7: a line request with start = end returns exactly [(x,y)] and does not
\* raise, for each of the three algorithms.
C7_DegenerateLine ==
    (IsLine /\ x1 = x2 /\ y1 = y2 /\ pc # "call") =>
        /\ pc = "done"
        /\ ret = << <<x1, y1>> >>

\* a returned degenerate DDA request off the origin
C7_Witness ==
    /\ pc = "done" /\ fn = "dda_line"
    /\ x1 = x2 /\ y1 = y2 /\ x1 # 0 /\ y1 # 0

\* C8: on horizontal, vertical and exactly diagonal requests Bresenham
\* returns exactly the n+1 points (x1 + j*sgn(x2-x1), y1 + j*sgn(y2-y1)),
\* j = 0..n, in that order, with n = max(|dx|,|dy|).
C8_BresenhamExact ==
    (pc = "done" /\ fn = "bresenham_line"
        /\ (y1 = y2 \/ x1 = x2 \/ Abs(dx) = Abs(dy))) =>
        /\ Len(ret) = steps + 1
        /\ \A j \in 0..steps :
              ret[j + 1] = <<x1 + j * Sgn(dx), y1 + j * Sgn(dy)>>

\* a returned anti-diagonal of at least three points
C8_Witness ==
    /\ pc = "done" /\ fn = "bresenham_line"
    /\ x2 < x1 /\ y2 > y1 /\ Abs(dx) = Abs(dy) /\ steps >= 2
    /\ Len(ret) = steps + 1

C9_Inv ==
    /\ bpc # "idle" =>
          /\ Len(line_dataset) = line_tests
          /\ Len(circle_dataset) = circle_tests
    /\ \A c \in Range(calls) :
          c[1] \in Range(line_algorithms) \cup Range(circle_algorithms)
    /\ \A key \in Range(line_algorithms) :
          /\ IsPrefix(ArgsOf(key), line_dataset)
          /\ bpc \in {"circle_for", "circle_pass", "returned"} =>
                ArgsOf(key) = line_dataset
    /\ \A key \in Range(circle_algorithms) :
          /\ IsPrefix(ArgsOf(key), circle_dataset)
          /\ bpc = "returned" => ArgsOf(key) = circle_dataset

C9_Act ==
    bpc \in {"line_for", "line_pass", "circle_for", "circle_pass"} =>
        /\ line_dataset' = line_dataset
        /\ circle_dataset' = circle_dataset

\* C9: within one run_benchmarks call both workloads exist in full before
\* the first timed pass, every registered algorithm is called exactly once
\* per tuple of its workload, in workload order, and the workloads do not
\* change while the passes run.
C9_SameWorkload == [](C9_Inv) /\ [][C9_Act]_vars

\* a returned run of two line algorithms and one circle algorithm over
\* workloads of two distinct tuples
C9_Witness ==
    /\ bpc = "returned"
    /\ Len(line_algorithms) >= 2 /\ Len(circle_algorithms) >= 1
    /\ line_tests = 2 /\ circle_tests = 2
    /\ line_dataset[1] # line_dataset[2]
    /\ circle_dataset[1] # circle_dataset[2]
    /\ Len(calls) = 2 * Len(line_algorithms) + 2 * Len(circle_algorithms)

\* C10: a call with the same seed, line_tests and circle_tests as the
\* previous call generates the same line workload and the same circle
\* workload, whatever ran before and whatever is registered.
C10_Deterministic ==
    (prev # <<>> /\ prev[1].seed = seed /\ prev[1].line_tests = line_tests
        /\ prev[1].circle_tests = circle_tests) =>
        /\ prev[1].line_dataset = line_dataset
        /\ prev[1].circle_dataset = circle_dataset

\* a second call with the inputs of the first, both workloads non-empty
C10_Witness ==
    /\ prev # <<>> /\ bpc = "returned"
    /\ prev[1].seed = seed /\ prev[1].line_tests = line_tests
    /\ prev[1].circle_tests = circle_tests
    /\ line_tests >= 1 /\ circle_tests >= 1
    /\ prev[1].line_dataset = line_dataset /\ line_dataset # <<>>

\* C11: with both sample counts >= 1 a call that has returned holds exactly
\* one record per registered algorithm, the line algorithms first, each
\* group in registry order, named by the algorithm's label and carrying
\* line_tests resp. circle_tests.
C11_OneRecordPerAlgorithm ==
    (bpc = "returned" /\ line_tests >= 1 /\ circle_tests >= 1) =>
        /\ Len(results) = Len(line_algorithms) + Len(circle_algorithms)
        /\ \A j \in 1..Len(line_algorithms) :
              /\ results[j].name = Label(line_algorithms[j])
              /\ results[j].tests = line_tests
        /\ \A j \in 1..Len(circle_algorithms) :
              /\ results[Len(line_algorithms) + j].name = Label(circle_algorithms[j])
              /\ results[Len(line_algorithms) + j].tests = circle_tests

\* a returned run of the module's registries with different sample counts
C11_Witness ==
    /\ bpc = "returned"
    /\ line_algorithms = LINE_ALGORITHMS /\ circle_algorithms = CIRCLE_ALGORITHMS
    /\ line_tests = 1 /\ circle_tests = 2
    /\ Len(results) = 4

\* C12: the workload has line_tests line tuples with coordinates in
\* [-60,60] and circle_tests circle tuples with centre in [-30,30] and
\* radius in [1,30]; bresenham_circle_points is never called with an
\* invalid radius.
C12_WorkloadRanges ==
    bpc # "idle" =>
        /\ Len(line_dataset) = line_tests
        /\ Len(circle_dataset) = circle_tests
        /\ \A j \in 1..Len(line_dataset) :
              /\ Len(line_dataset[j]) = 4
              /\ \A c \in 1..4 : line_dataset[j][c] \in (-60)..60
        /\ \A j \in 1..Len(circle_dataset) :
              /\ Len(circle_dataset[j]) = 3
              /\ circle_dataset[j][1] \in (-30)..30
              /\ circle_dataset[j][2] \in (-30)..30
              /\ circle_dataset[j][3] \in 1..30
        /\ \A j \in 1..Len(calls) :
              calls[j][1] = "bresenham_circle" => ~Raises(calls[j][1], calls[j][2])

\* a returned run that has called bresenham_circle_points on full workloads
C12_Witness ==
    /\ bpc = "returned"
    /\ line_tests = MaxTests /\ circle_tests = MaxTests
    /\ \E j \in 1..Len(calls) : calls[j][1] = "bresenham_circle"

C15_Inv ==
    \A j \in 1..Len(calls) :
        Raises(calls[j][1], calls[j][2]) => (j = Len(calls) /\ bpc = "raised")

C15_Act ==
    bpc = "raised" => (bpc' = "line_for" /\ calls' = <<>> /\ results' = <<>>)

\* C15: a call func(*args) that raises is the last call of its run: the run
\* is left in the raised position, never returns its results, calls no
\* further algorithm and appends no further record (the only step from
\* there is a fresh run_benchmarks call).
C15_RaisePropagates == [](C15_Inv) /\ [][C15_Act]_vars

\* the second of three line algorithms has raised on its second tuple, after
\* the first was timed
C15_Witness ==
    /\ bpc = "raised"
    /\ calls # <<>>
    /\ Raises(calls[Len(calls)][1], calls[Len(calls)][2])
    /\ Len(results) = 1 /\ ai = 2 /\ k = 1
    /\ Len(line_algorithms) = 3

IsFloatLine == fn \in {"step_line", "dda_line"}

\* num/den (den > 0) rounded to the nearest integer, ties away from zero
RoundHalfAway(num, den) ==
    LET q == num \div den
        r == num % den
    IN  IF 2 * r < den THEN q
        ELSE IF 2 * r > den THEN q + 1
        ELSE IF num >= 0 THEN q + 1 ELSE q

\* the exact j-th evaluated position of Step and DDA, times steps:
\* start + j/steps of the delta
PosNum(j) == <<x1 * steps + j * dx, y1 * steps + j * dy>>

\* C13 as stated: Step and DDA round every evaluated position to the
\* nearest integer with exact .5 ties away from zero, so (0,0,2,1) emits
\* (1,1) and (0,0,2,-1) emits (1,-1).
C13_TiesAwayFromZero ==
    (pc = "done" /\ IsFloatLine /\ steps > 0) =>
        /\ Len(ret) = steps + 1
        /\ \A j \in 0..steps :
              ret[j + 1] = <<RoundHalfAway(PosNum(j)[1], steps),
                             RoundHalfAway(PosNum(j)[2], steps)>>

\* C13 (amended): Step and DDA round every evaluated position to a nearest
\* integer; an exact .5 tie that the doubles compute exactly (the slope or
\* increment is a dyadic rational) goes to the even integer, not away from
\* zero: (0,0,2,1) and (0,0,2,-1) both emit (1,0) at x = 1.
C13_NearestTiesToEven ==
    (pc = "done" /\ IsFloatLine /\ steps > 0) =>
        /\ Len(ret) = steps + 1
        /\ \A j \in 0..steps : \A c \in 1..2 :
              LET num == PosNum(j)[c]
                  delta == IF c = 1 THEN dx ELSE dy
              IN  /\ 2 * Abs(ret[j + 1][c] * steps - num) <= steps
                  /\ (2 * (num % steps) = steps /\ FloatExact(delta, steps))
                        => ret[j + 1][c] % 2 = 0
        /\ args = <<0, 0, 2, 1>> => ret = << <<0, 0>>, <<1, 0>>, <<2, 1>> >>
        /\ args = <<0, 0, 2, -1>> => ret = << <<0, 0>>, <<1, 0>>, <<2, -1>> >>

\* the request of the claim's example, returned by Step with the tie at
\* x = 1 rounded to the even 0
C13_Witness ==
    /\ pc = "done" /\ fn = "step_line"
    /\ args = <<0, 0, 2, 1>>
    /\ ret[2] = <<1, 0>>

\* C17: consecutive points of a line result are 8-neighbours, and each
\* coordinate moves only in the direction from its start value to its end
\* value.
C17_ConnectedMonotone ==
    (pc = "done" /\ IsLine) =>
        \A j \in 1..(Len(ret) - 1) :
            LET mx == ret[j + 1][1] - ret[j][1]
                my == ret[j + 1][2] - ret[j][2]
            IN  /\ Abs(mx) <= 1 /\ Abs(my) <= 1
                /\ Sgn(mx) \in {0, Sgn(dx)}
                /\ Sgn(my) \in {0, Sgn(dy)}

\* a returned Step result on a steep line running down and to the left
C17_Witness ==
    /\ pc = "done" /\ fn = "step_line"
    /\ dx < 0 /\ dy < dx /\ Len(ret) >= 4

\* C20: a line result has exactly max(|x2-x1|, |y2-y1|) + 1 points; the
\* append guard never drops a point: in the loops the list grows by one at
\* every evaluation.
C20_ExactLength ==
    /\ pc \in {"step_x", "step_y", "dda"} => Len(points) = iters
    /\ pc \in {"bres_x", "bres_y"} => Len(points) = iters + 1
    /\ (pc = "done" /\ IsLine) =>
          Len(ret) = Max(Abs(x2 - x1), Abs(y2 - y1)) + 1

\* a returned DDA result on a shallow line
C20_Witness ==
    /\ pc = "done" /\ fn = "dda_line"
    /\ Abs(dy) > 0 /\ Abs(dy) < Abs(dx)
    /\ Len(ret) = Abs(dx) + 1 /\ Len(ret) >= 4

Finished == pc \in {"done", "raised"}

C18_Inv ==
    /\ pc \in {"step_x", "step_y"} => iters <= steps
    /\ (pc = "done" /\ fn = "step_line" /\ steps > 0) => iters = steps + 1
    /\ (IsCircle /\ radius >= 0) =>
          /\ iters <= radius + 1
          /\ pc = "circle" => x = iters

C18_Act ==
    (pc = "circle" /\ pc' = "circle") => (x' = x + 1 /\ y' \in {y, y - 1})

\* C18: every rasterizer call terminates; the loops of step_line_points
\* reach their break after exactly max(|dx|,|dy|)+1 evaluations, and the
\* loop of bresenham_circle_points runs at most radius+1 times, each
\* iteration adding 1 to x and taking at most 1 from y.
C18_Terminates == <>Finished /\ [](C18_Inv) /\ [][C18_Act]_vars

\* a Step call on a line running up and to the left has reached its break
C18_Witness ==
    /\ pc = "done" /\ fn = "step_line"
    /\ dx < 0 /\ dy > 0 /\ Abs(dy) > Abs(dx)
    /\ iters = steps + 1

\* C14: for every line request the Step result and the DDA result have as
\* many points as the Bresenham result, and at every index the two points
\* differ by at most 1 in each coordinate
C14_WithinOnePixel ==
    (/\ Len(log) = 1 /\ pc = "done" /\ fn = "bresenham_line"
     /\ log[1].fn \in {"step_line", "dda_line"} /\ log[1].args = args)
    => /\ Len(log[1].ret) = Len(ret)
       /\ \A j \in 1..Len(ret) :
            /\ Abs(log[1].ret[j][1] - ret[j][1]) <= 1
            /\ Abs(log[1].ret[j][2] - ret[j][2]) <= 1

\* Step and Bresenham have both returned on a sloped request and disagree on
\* a point
C14_Witness ==
    /\ Len(log) = 1 /\ pc = "done" /\ fn = "bresenham_line"
    /\ log[1].fn = "step_line" /\ log[1].args = args
    /\ Abs(dx) >= 2 /\ dy # 0 /\ Abs(dx) # Abs(dy)
    /\ log[1].ret # ret

\* C19: bresenham_line_points(y1, x1, y2, x2) is bresenham_line_points(x1,
\* y1, x2, y2) with the x and y of every point exchanged, point for point
C19_AxisSwap ==
    (/\ Len(log) = 1 /\ pc = "done" /\ fn = "bresenham_line"
     /\ log[1].fn = "bresenham_line" /\ log[1].args = Transposed(args))
    => /\ Len(ret) = Len(log[1].ret)
       /\ \A j \in 1..Len(ret) :
            ret[j] = <<log[1].ret[j][2], log[1].ret[j][1]>>

\* both Bresenham calls have returned, one from the x-driven and one from
\* the y-driven loop, on a request that is neither axis-aligned nor diagonal
C19_Witness ==
    /\ Len(log) = 1 /\ pc = "done" /\ fn = "bresenham_line"
    /\ log[1].fn = "bresenham_line" /\ log[1].args = Transposed(args)
    /\ bdy > bdx /\ bdx > 0
    /\ Len(ret) >= 3

\* the calls that are over, in the order in which they ended
Ended ==
    IF pc \in {"done", "raised"} THEN Append(log, Outcome) ELSE log

\* round() has one outcome at every point of the request: integer
\* arithmetic, an exact double slope, or no point half-way between two
\* pixels
ExactRequest(f, a) ==
    \/ f \notin {"step_line", "dda_line"}
    \/ LET ddx == Abs(a[3] - a[1])
           ddy == Abs(a[4] - a[2])
           m == Max(ddx, ddy)
       IN  \/ m = 0
           \/ FloatExact(ddx, m) /\ FloatExact(ddy, m)
           \/ \A j \in 0..m : /\ (2 * j * ddx) % (2 * m) # m
                              /\ (2 * j * ddy) % (2 * m) # m

\* C16: a call that was interleaved with another one ends as the same
\* request ends when it runs alone: same outcome, same list of points (the
\* registries are definitions of the module, no action writes them)
C16_NoSharedState ==
    \A i \in 1..Len(Ended), j \in 1..Len(Ended) :
        (/\ i < j
         /\ Ended[i].fn = Ended[j].fn /\ Ended[i].args = Ended[j].args
         /\ ExactRequest(Ended[i].fn, Ended[i].args))
        => Ended[j].pc = Ended[i].pc /\ Ended[j].ret = Ended[i].ret

\* a circle call has returned after another circle call on the same centre
\* ran in the middle of it
C16_Witness ==
    /\ Len(log) = 2 /\ pc = "done" /\ saved = <<>>
    /\ fn = "bresenham_circle" /\ args = <<0, 0, 2>>
    /\ log[1].fn = fn /\ log[1].args = args
    /\ log[2].fn = "bresenham_circle" /\ log[2].args = <<0, 0, 1>>
    /\ Len(ret) = 12

\* C21: every point of a Bresenham line lies within half a pixel of the
\* ideal segment along the minor axis, 2*|dx*|y-y1| - dy*|x-x1|| <= dx when
\* dx >= dy (axes exchanged when dy > dx), and the error accumulator is in
\* [2*dy - 2*dx, 2*dy) at the start of every iteration (axes exchanged in
\* the y-driven loop)
C21_HalfPixel ==
    fn = "bresenham_line" =>
       /\ \A j \in 1..Len(points) :
            LET ax == Abs(points[j][1] - x1)
                ay == Abs(points[j][2] - y1)
            IN  IF bdx >= bdy
                THEN 2 * Abs(bdx * ay - bdy * ax) <= bdx
                ELSE 2 * Abs(bdy * ax - bdx * ay) <= bdy
       /\ pc = "bres_x" => /\ iters < bdx
                           /\ 2 * bdy - 2 * bdx <= err /\ err < 2 * bdy
       /\ pc = "bres_y" => /\ iters < bdy
                           /\ 2 * bdx - 2 * bdy <= err /\ err < 2 * bdx

\* a sloped Bresenham line has returned whose middle point lies exactly
\* half a pixel off the ideal segment
C21_Witness ==
    /\ pc = "done" /\ fn = "bresenham_line"
    /\ bdx >= 2 /\ bdy >= 1 /\ bdx > bdy
    /\ \E j \in 1..Len(ret) :
         2 * Abs(bdx * Abs(ret[j][2] - y1) - bdy * Abs(ret[j][1] - x1)) = bdx

\* C22: for radius >= 1 every point (px, py) of a circle result satisfies
\* (r-1)^2 < (px-xc)^2 + (py-yc)^2 < (r+1)^2, and the result starts with
\* the four cardinal points (xc, yc+r), (xc, yc-r), (xc+r, yc), (xc-r, yc)
\* in that order
C22_WithinOnePixelOfCircle ==
    (pc = "done" /\ fn = "bresenham_circle" /\ radius >= 1) =>
       /\ \A j \in 1..Len(ret) :
            LET q == (ret[j][1] - xc) * (ret[j][1] - xc)
                     + (ret[j][2] - yc) * (ret[j][2] - yc)
            IN  /\ (radius - 1) * (radius - 1) < q
                /\ q < (radius + 1) * (radius + 1)
       /\ Len(ret) >= 4
       /\ ret[1] = <<xc, yc + radius>> /\ ret[2] = <<xc, yc - radius>>
       /\ ret[3] = <<xc + radius, yc>> /\ ret[4] = <<xc - radius, yc>>

\* the exact position j is half-way between two pixels and the double slope
\* is inexact, so that the double arithmetic decides the side
InexactTie(j) ==
    \E m \in {Abs(dx), Abs(dy)} :
        /\ steps > 0
        /\ ~FloatExact(m, steps)
        /\ (2 * j * m) % (2 * steps) = steps

\* C23: in exact arithmetic the k-th evaluated position of step_line_points
\* and of dda_line_points is the start plus k/max(|dx|,|dy|) of the delta,
\* and with the same rounding of the same positions both return the same
\* sequence of points
C23_StepEqualsDda ==
    /\ pc = "step_x" =>
         LET raw_y == Raw(y1, slope, x - x1)
         IN  /\ x * steps = PosNum(iters)[1]
             /\ raw_y[1] * steps = PosNum(iters)[2] * raw_y[2]
    /\ pc = "step_y" =>
         LET raw_x == Raw(x1, inv_slope, y - y1)
         IN  /\ y * steps = PosNum(iters)[2]
             /\ raw_x[1] * steps = PosNum(iters)[1] * raw_x[2]
    /\ pc = "dda" => <<x, y>> = PosNum(iters)
    /\ (/\ Len(log) = 1 /\ pc = "done" /\ fn = "dda_line"
        /\ log[1].fn = "step_line" /\ log[1].args = args)
       => /\ Len(ret) = Len(log[1].ret)
          /\ \A j \in 1..Len(ret) :
               ~InexactTie(j - 1) => ret[j] = log[1].ret[j]

\* Step and then DDA have returned on a sloped request that passes exactly
\* half-way between two pixels
C23_Witness ==
    /\ Len(log) = 1 /\ pc = "done" /\ fn = "dda_line"
    /\ log[1].fn = "step_line" /\ log[1].args = args
    /\ Abs(dx) = 2 /\ Abs(dy) = 1
    /\ Len(ret) = 3 /\ ret = log[1].ret

\* current_circle is None or carries a radius >= 0, and no circle call of
\* render_scene has a negative radius
C24_Inv ==
    /\ current_circle = <<>> \/ (Len(current_circle) = 3 /\ current_circle[3] >= 0)
    /\ \A j \in 1..Len(drawn) :
         drawn[j][1] \in Range(CIRCLE_ALGORITHMS) => drawn[j][2][3] >= 0

\* a rejected draw_line or draw_circle changes neither current_line nor
\* current_circle
C24_Act ==
    last' \in {"Invalid input", "Invalid radius"}
    => current_line' = current_line /\ current_circle' = current_circle

\* C24: after any sequence of draw_line, draw_circle, clear_scene and
\* render_scene events current_circle is None or has radius >= 0, a rejected
\* draw leaves current_line and current_circle unchanged, and render_scene
\* never calls the circle rasterizer with a negative radius
C24_RejectKeepsScene == [](C24_Inv) /\ [][C24_Act]_vars

\* a negative radius has just been rejected while a line and a circle are
\* displayed by every algorithm
C24_Witness ==
    /\ last = "Invalid radius"
    /\ current_line # <<>> /\ current_circle # <<>>
    /\ Len(drawn) = 4
    /\ drawn[4] = <<"bresenham_circle", current_circle>>

\* C25: run_benchmarks called with line_tests = 0 or circle_tests = 0 on the
\* module's registries does not raise, and returns one record per
\* registered algorithm, the records of the empty kind with sample count 0
\* and avg = total_ms / sample_count * 1000
C25_EmptyWorkloadCompletes ==
    (/\ bpc # "idle"
     /\ line_tests = 0 \/ circle_tests = 0
     /\ line_algorithms = LINE_ALGORITHMS
     /\ circle_algorithms = CIRCLE_ALGORITHMS)
    => /\ bpc # "raised"
       /\ bpc = "returned" =>
            /\ Len(results) = Len(LINE_ALGORITHMS) + Len(CIRCLE_ALGORITHMS)
            /\ \A j \in 1..Len(results) :
                 /\ results[j].tests = IF j <= Len(LINE_ALGORITHMS)
                                       THEN line_tests ELSE circle_tests
                 /\ results[j].avg = <<results[j].total * 1000, results[j].tests>>

====
